---- MODULE Spec2Model ----
(***************************************************************************)
(* Model of 1689bot (src/bot.py): the paragraph chunker split_chunks, the  *)
(* renderer render_message, the per-chat style registry STYLE_BY_CHAT and  *)
(* the message handlers.                                                   *)
(*                                                                         *)
(* A Python str is a sequence of characters; a character is a TLA+ string  *)
(* standing for one code point, so Len agrees with Python's len.           *)
(*                                                                         *)
(* SpecChunk      split_chunks applied to every short text and max_len     *)
(* Spec           the bot as main builds it: one handler at a time         *)
(* SpecConcurrent the handlers of the style registry, interleaved at       *)
(*                every reply they await                                   *)
(***************************************************************************)
EXTENDS FiniteSets, Integers, Sequences, TLC

VARIABLES
    text,       \* split_chunks: argument text
    max_len,    \* split_chunks: argument max_len
    run,        \* split_chunks: locals at return (parts, current) and trace
    cpc,        \* "input" before the call of split_chunks, "done" after it
    INDEX,          \* line 24: key "N.M" -> body
    CHAPTERS,       \* line 25: chapter number -> [title]
    STYLE_BY_CHAT,  \* line 73: chat id -> style, a missing key reads as default
    tasks,          \* the handler run for each update, in order of arrival
    accepted        \* history: per chat, the last choice stored by line 113

chunkVars == <<text, max_len, run, cpc>>

botVars == <<INDEX, CHAPTERS, STYLE_BY_CHAT, tasks, accepted>>

vars == <<text, max_len, run, cpc,
          INDEX, CHAPTERS, STYLE_BY_CHAT, tasks, accepted>>

-----------------------------------------------------------------------------
(* Bounds *)

\* longest text handed to split_chunks in SpecChunk
MaxTextLen == 8

\* largest max_len handed to split_chunks in SpecChunk
MaxMaxLen == 4

\* number of chats
NumChats == 2

\* number of updates received in one behaviour
MaxUpdates == 2

-----------------------------------------------------------------------------
(* Strings *)

NL == "\n"

\* the paragraph separator "\n\n"
SEP == <<NL, NL>>

Min(S) == CHOOSE i \in S : \A j \in S : i <= j

\* index of the leftmost occurrence of "\n\n" in s, 0 when there is none
FindSep(s) ==
    LET hits == {i \in 1..(Len(s) - 1) : s[i] = NL /\ s[i + 1] = NL}
    IN  IF hits = {} THEN 0 ELSE Min(hits)

\* str.split("\n\n"): leftmost, non-overlapping separators; never empty
RECURSIVE Split(_)
Split(s) ==
    LET i == FindSep(s)
    IN  IF i = 0
        THEN <<s>>
        ELSE <<SubSeq(s, 1, i - 1)>> \o Split(SubSeq(s, i + 2, Len(s)))

\* ("\n\n").join(items)
RECURSIVE Join(_)
Join(items) ==
    IF items = <<>> THEN <<>>
    ELSE IF Len(items) = 1 THEN items[1]
    ELSE items[1] \o SEP \o Join(Tail(items))

-----------------------------------------------------------------------------
(* split_chunks *)

\* line 36 with a strict comparison
FitsStrict(bloc, m) == Len(bloc) < m

\* line 36: len(bloc) <= max_len
Fits(bloc, m) == Len(bloc) <= m

\* line 45 with >= : the loop also slices a remainder of exactly max_len
RECURSIVE HardSplitEager(_, _)
HardSplitEager(s, m) ==
    IF Len(s) >= m
    THEN LET r == HardSplitEager(SubSeq(s, m + 1, Len(s)), m)
         IN  [slices |-> <<SubSeq(s, 1, m)>> \o r.slices, rest |-> r.rest]
    ELSE [slices |-> <<>>, rest |-> s]

\* lines 44-47: while len(s) > max_len: parts.append(s[:max_len]);
\* s = s[max_len:].  slices are the appended parts, rest is s at loop exit.
RECURSIVE HardSplit(_, _)
HardSplit(s, m) ==
    IF Len(s) > m
    THEN LET r == HardSplit(SubSeq(s, m + 1, Len(s)), m)
         IN  [slices |-> <<SubSeq(s, 1, m)>> \o r.slices, rest |-> r.rest]
    ELSE [slices |-> <<>>, rest |-> s]

\* the trace entries of n parts appended with the same kind
Kinds(n, k) == [i \in 1..n |-> k]

\* lines 39-40: if current: parts.append(("\n\n").join(current))
\* cuts[i] tells how parts[i] ended: "para" at a paragraph boundary
\* (lines 40, 50), "hard" inside a paragraph (line 46).
Flush(st) ==
    IF st.current # <<>>
    THEN [st EXCEPT !.parts = @ \o <<Join(st.current)>>,
                    !.cuts  = @ \o <<"para">>]
    ELSE st

\* lines 41-48 without the hard split: an oversized paragraph is kept whole
PlaceWhole(st, para, m) == [st EXCEPT !.current = <<para>>]

\* lines 41-48 dropping the remainder of a hard split
PlaceDropRest(st, para, m) ==
    IF Len(para) <= m
    THEN [st EXCEPT !.current = <<para>>]
    ELSE LET h == HardSplit(para, m)
         IN  [st EXCEPT !.parts   = @ \o h.slices,
                        !.cuts    = @ \o Kinds(Len(h.slices), "hard"),
                        !.current = <<>>,
                        !.seeds   = @ \o <<[para |-> para,
                                            slices |-> h.slices,
                                            rest |-> h.rest]>>]

\* lines 41-48: the paragraph that did not fit starts the new batch, or is
\* hard-split when it is itself longer than max_len.
\* seeds records each hard split: the paragraph, its slices and the
\* remainder s tested at line 48.
Place(st, para, m) ==
    IF Len(para) <= m
    THEN [st EXCEPT !.current = <<para>>]
    ELSE LET h == HardSplit(para, m)
         IN  [st EXCEPT !.parts   = @ \o h.slices,
                        !.cuts    = @ \o Kinds(Len(h.slices), "hard"),
                        !.current = IF h.rest # <<>> THEN <<h.rest>> ELSE <<>>,
                        !.seeds   = @ \o <<[para |-> para,
                                            slices |-> h.slices,
                                            rest |-> h.rest]>>]

\* lines 35-48: one iteration of the for loop
Step(st, para, m) ==
    LET bloc == Join(st.current)
                \o (IF st.current # <<>> THEN SEP ELSE <<>>) \o para
    IN  IF Fits(bloc, m)
        THEN [st EXCEPT !.current = @ \o <<para>>]
        ELSE Place(Flush(st), para, m)

\* line 34: for para in text.split("\n\n")
RECURSIVE Loop(_, _, _)
Loop(st, paras, m) ==
    IF paras = <<>> THEN st
    ELSE Loop(Step(st, Head(paras), m), Tail(paras), m)

\* line 33: parts, current = [], []
Start0 == [parts |-> <<>>, current |-> <<>>, cuts |-> <<>>, seeds |-> <<>>]

\* lines 33-50: the locals when split_chunks returns
SplitRun(t, m) == Flush(Loop(Start0, Split(t), m))

\* lines 31-51: split_chunks(text, max_len)
split_chunks(t, m) == SplitRun(t, m).parts

-----------------------------------------------------------------------------
(* str.strip, str.lower, int, str *)

Whitespace == {" ", NL, "\t"}

\* str.strip(): drop leading and trailing whitespace
RECURSIVE strip(_)
strip(s) ==
    IF s = <<>> THEN s
    ELSE IF Head(s) \in Whitespace THEN strip(Tail(s))
    ELSE IF s[Len(s)] \in Whitespace THEN strip(SubSeq(s, 1, Len(s) - 1))
    ELSE s

UpperCase == <<"A", "B", "C", "D", "E", "F", "G", "H", "I", "J", "K", "L", "M",
               "N", "O", "P", "Q", "R", "S", "T", "U", "V", "W", "X", "Y", "Z">>

LowerCase == <<"a", "b", "c", "d", "e", "f", "g", "h", "i", "j", "k", "l", "m",
               "n", "o", "p", "q", "r", "s", "t", "u", "v", "w", "x", "y", "z">>

\* str.lower() on one character
LowerChar(c) ==
    IF \E i \in 1..Len(UpperCase) : UpperCase[i] = c
    THEN LowerCase[CHOOSE i \in 1..Len(UpperCase) : UpperCase[i] = c]
    ELSE c

\* str.lower()
lower(s) == [i \in 1..Len(s) |-> LowerChar(s[i])]

DigitChars == <<"0", "1", "2", "3", "4", "5", "6", "7", "8", "9">>

Digits == {DigitChars[i] : i \in 1..Len(DigitChars)}

DigitVal(c) == (CHOOSE i \in 1..Len(DigitChars) : DigitChars[i] = c) - 1

\* int(s) for a string of decimal digits
RECURSIVE int(_)
int(s) ==
    IF s = <<>> THEN 0
    ELSE 10 * int(SubSeq(s, 1, Len(s) - 1)) + DigitVal(s[Len(s)])

\* str(n) for n >= 0: decimal, no leading zeros
RECURSIVE str(_)
str(n) ==
    IF n < 10 THEN <<DigitChars[n + 1]>>
    ELSE str(n \div 10) \o <<DigitChars[(n % 10) + 1]>>

\* "\n".join(lines)
RECURSIVE JoinLines(_)
JoinLines(lines) ==
    IF lines = <<>> THEN <<>>
    ELSE IF Len(lines) = 1 THEN lines[1]
    ELSE lines[1] \o <<NL>> \o JoinLines(Tail(lines))

\* c * n
Repeat(c, n) == [i \in 1..n |-> c]

Max2(a, b) == IF a >= b THEN a ELSE b

Min2(a, b) == IF a <= b THEN a ELSE b

-----------------------------------------------------------------------------
(* Constants of the program *)

\* line 28
TELEGRAM_LIMIT == 4096

\* line 31: the default of max_len, used by every call in the handlers
DEFAULT_MAX_LEN == 4000

SCROLL == <<"s", "c", "r", "o", "l", "l">>

CLEAN == <<"c", "l", "e", "a", "n">>

BOX == <<"b", "o", "x">>

\* line 71
DEFAULT_STYLE == SCROLL

\* line 72
STYLE_CHOICES == {SCROLL, CLEAN, BOX}

\* lines 78-80: the reply of start
START_TEXT ==
    <<"B", "i", "e", "n", "v", "e", "n", "u", "e", " ", "!", "\n", "E",
      "x", "e", "m", "p", "l", "e", "s", " ", ":", " ", "/", "1", ".",
      "2", " ", " ", "U+2192", " ", "C", "h", "a", "p", "i", "t", "r",
      "e", " ", "1", ",", " ", "U+00A7", "2", "\n", "C", "o", "m", "m",
      "a", "n", "d", "e", "s", " ", ":", " ", "/", "c", "h", "a", "p",
      "i", "t", "r", "e", "s", ",", " ", "/", "h", "e", "l", "p", ",",
      " ", "/", "s", "t", "y", "l", "e">>

\* lines 85-88: the reply of help_cmd
HELP_TEXT ==
    <<"U", "s", "a", "g", "e", " ", ":", "\n", "U+2022", " ", "/", "N",
      ".", "M", " ", " ", "U+2192", " ", "C", "h", "a", "p", "i", "t",
      "r", "e", " ", "N", ",", " ", "p", "a", "r", "a", "g", "r", "a",
      "p", "h", "e", " ", "M", " ", "(", "e", "x", ":", " ", "/", "1",
      ".", "2", ")", "\n", "U+2022", " ", "/", "c", "h", "a", "p", "i",
      "t", "r", "e", "s", " ", "U+2192", " ", "l", "i", "s", "t", "e",
      " ", "d", "e", "s", " ", "t", "i", "t", "r", "e", "s", "\n",
      "U+2022", " ", "/", "s", "t", "y", "l", "e", " ", "[", "s", "c",
      "r", "o", "l", "l", "|", "c", "l", "e", "a", "n", "|", "b", "o",
      "x", "]", " ", "U+2192", " ", "c", "h", "o", "i", "s", "i", "r",
      " ", "l", "'", "a", "p", "p", "a", "r", "e", "n", "c", "e">>

\* line 96
NO_CHAPTER ==
    <<"A", "u", "c", "u", "n", " ", "c", "h", "a", "p", "i", "t", "r",
      "e", ".">>

\* line 105
STYLE_CURRENT ==
    <<"S", "t", "y", "l", "e", " ", "a", "c", "t", "u", "e", "l", ":", " ">>

\* line 106
STYLE_USAGE ==
    <<"U", "t", "i", "l", "i", "s", "e", ":", " ", "/", "s", "t", "y",
      "l", "e", " ", "s", "c", "r", "o", "l", "l", " ", "|", " ", "/",
      "s", "t", "y", "l", "e", " ", "c", "l", "e", "a", "n", " ", "|",
      " ", "/", "s", "t", "y", "l", "e", " ", "b", "o", "x">>

\* line 111
STYLE_UNKNOWN ==
    <<"S", "t", "y", "l", "e", " ", "i", "n", "c", "o", "n", "n", "u",
      ".", " ", "C", "h", "o", "i", "s", "i", "s", ":", " ", "s", "c",
      "r", "o", "l", "l", ",", " ", "c", "l", "e", "a", "n", ",", " ",
      "b", "o", "x", ".">>

\* line 114
STYLE_SET ==
    <<"U+2705", " ", "S", "t", "y", "l", "e", " ", "d", "U+00E9", "f",
      "i", "n", "i", " ", "s", "u", "r", ":", " ">>

\* line 124
NOT_FOUND ==
    <<"I", "n", "t", "r", "o", "u", "v", "a", "b", "l", "e", ".", " ",
      "V", "U+00E9", "r", "i", "f", "i", "e", " ", "l", "e", " ", "n",
      "u", "m", "U+00E9", "r", "o", " ", "(", "e", "x", ":", " ", "/",
      "1", ".", "2", ")", ".">>

\* line 139
CATCH_ALL_TEXT ==
    <<"J", "e", " ", "c", "o", "m", "p", "r", "e", "n", "d", "s", " ",
      "l", "e", "s", " ", "r", "e", "q", "u", "U+00EA", "t", "e", "s",
      " ", "d", "e", " ", "t", "y", "p", "e", " ", "/", "N", ".", "M",
      " ", "(", "e", "x", ":", " ", "/", "1", ".", "2", ")", ".", " ",
      "E", "s", "s", "a", "i", "e", " ", "!">>

\* line 127: the synthesized title f"Chapitre {ch}"
CHAPITRE ==
    <<"C", "h", "a", "p", "i", "t", "r", "e", " ">>

\* lines 59, 62, 65, 69: the " — " between number and header
DASH ==
    <<" ", "U+2014", " ">>

\* line 59
SCROLL_MARK ==
    <<"U+1F4DC", " ">>

-----------------------------------------------------------------------------
(* ARTICLE_RE and render_message *)

AllIn(s, from, to, S) == \A k \in from..to : s[k] \in S

\* line 29: ARTICLE_RE.match(s) for ^/(\d{1,2})\.(\d{1,2})\s*$ .  The
\* digit, dot and whitespace classes are disjoint, so at most one pair of
\* group lengths matches.
ArticleGroups(s) ==
    {<<i, j>> \in (1..2) \X (1..2) :
        /\ Len(s) >= i + j + 2
        /\ s[1] = "/"
        /\ AllIn(s, 2, i + 1, Digits)
        /\ s[i + 2] = "."
        /\ AllIn(s, i + 3, i + j + 2, Digits)
        /\ AllIn(s, i + j + 3, Len(s), Whitespace)}

ARTICLE_RE_match(s) == ArticleGroups(s) # {}

\* m.group(1)
Group1(s) ==
    LET g == CHOOSE g \in ArticleGroups(s) : TRUE
    IN  SubSeq(s, 2, g[1] + 1)

\* m.group(2)
Group2(s) ==
    LET g == CHOOSE g \in ArticleGroups(s) : TRUE
    IN  SubSeq(s, g[1] + 3, g[1] + g[2] + 2)

\* f"{ch}.{para} — {header}"
TitleLine(ch, para, header) == ch \o <<".">> \o para \o DASH \o header

\* lines 54-69: render_message(ch, para, header, body, style)
render_message(ch, para, header, body, style) ==
    IF style = SCROLL
    THEN JoinLines(<<SCROLL_MARK \o TitleLine(ch, para, header), <<>>, body>>)
    ELSE IF style = CLEAN
    THEN JoinLines(<<TitleLine(ch, para, header), <<>>, body>>)
    ELSE IF style = BOX
    THEN LET title == TitleLine(ch, para, header)
             bar   == Repeat("U+2500", Min2(Max2(Len(title), 12), 60))
         IN  JoinLines(<< <<"U+250C">> \o bar \o <<"U+2510">>,
                          <<"U+2502", " ">> \o title,
                          <<"U+2514">> \o bar \o <<"U+2518">>,
                          <<>>,
                          body >>)
    ELSE TitleLine(ch, para, header) \o SEP \o body

-----------------------------------------------------------------------------
(* The data file: INDEX and CHAPTERS (lines 21-25) *)

KEY_1_2 == <<"1", ".", "2">>

\* " Abc.\n\nDef.\n"
ShortBody ==
    <<" ", "A", "b", "c", ".", NL, NL, "D", "e", "f", ".", NL>>

\* a chapter title longer than a message of the transport
LongTitle == Repeat("t", 4100)

Title(s) == [title |-> s]

\* the documents the bot is started with: index maps "N.M" to a body,
\* chapters maps "N" to a record with a title
DocPlain ==
    [index    |-> (KEY_1_2 :> ShortBody),
     chapters |-> (<<"1">> :> Title(<<"F", "o", "i">>))
                  @@ (<<"2">> :> Title(<<"D", "i", "e", "u">>))
                  @@ (<<"1", "0">> :> Title(<<"L", "o", "i">>))]

\* the title of chapter 1 does not fit in one message
DocLong ==
    [index    |-> (KEY_1_2 :> ShortBody),
     chapters |-> (<<"1">> :> Title(LongTitle))]

\* no chapter table
DocNoChapters ==
    [index    |-> (KEY_1_2 :> ShortBody),
     chapters |-> <<>>]

Docs == {DocPlain, DocLong, DocNoChapters}

-----------------------------------------------------------------------------
(* Requests *)

Chats == 1..NumChats

Tasks == 1..MaxUpdates

\* texts routed to article_by_slash (line 161)
ArticleTexts == { <<"/", "1", ".", "2">>,
                  <<"/", "0", "1", ".", "0", "2">>,
                  <<"/", "9", "9", ".", "9", "9">> }

\* texts routed to catch_all (line 164)
FreeTexts == { <<" ", "1", ".", "2", " ">>, <<"a", "b", "c">> }

\* context.args of /style (line 158)
StyleArgs == { <<>>,
               << <<"b", "o", "x">> >>,
               << <<"C", "l", "e", "a", "n">> >>,
               << <<"f", "a", "n", "c", "y">> >> }

-----------------------------------------------------------------------------
(* STYLE_BY_CHAT: defaultdict(lambda: DEFAULT_STYLE), line 73 *)

\* STYLE_BY_CHAT[chat_id] read: the stored value, or the default
StyleGet(reg, c) == IF c \in DOMAIN reg THEN reg[c] ELSE DEFAULT_STYLE

\* STYLE_BY_CHAT after a read: a missing key is inserted with the default
StyleTouch(reg, c) ==
    IF c \in DOMAIN reg THEN reg ELSE (c :> DEFAULT_STYLE) @@ reg

\* line 113 storing the choice for every chat
StoreStyleAll(reg, c, choice) == [d \in Chats |-> choice]

\* line 113: STYLE_BY_CHAT[chat_id] = choice
StoreStyle(reg, c, choice) == (c :> choice) @@ reg

\* line 110 accepting every choice
AnyChoice(choice) == TRUE

\* line 110: choice in STYLE_CHOICES
ValidChoice(choice) == choice \in STYLE_CHOICES

\* line 109: context.args[0].strip().lower()
Normalize(arg) == lower(strip(arg))

-----------------------------------------------------------------------------
(* Handlers.  A handler runs without interruption up to its first await;  *)
(* every await update.message.reply_text(...) is a point where other      *)
(* handlers may run.  plan: what the handler does before its first reply. *)

Idle == [pc |-> "idle", chat |-> 0, kind |-> "", text |-> <<>>,
         args |-> <<>>, style |-> <<>>, queue |-> <<>>, sent |-> <<>>]

\* reg: STYLE_BY_CHAT after the synchronous part; style: the style read
\* (<<>> when none is read); acc: the choice stored (<<>> when none);
\* queue: the replies to send, in order; raised: an exception was raised
Plan(reg, style, acc, queue, raised) ==
    [reg |-> reg, style |-> style, acc |-> acc, queue |-> queue,
     raised |-> raised]

\* lines 100-114: set_style
SetStylePlan(reg, c, args) ==
    IF args = <<>>
    THEN LET cur == StyleGet(reg, c)
         IN  Plan(StyleTouch(reg, c), cur, <<>>,
                  << STYLE_CURRENT \o cur \o <<NL>> \o STYLE_USAGE >>, FALSE)
    ELSE LET choice == Normalize(args[1])
         IN  IF ~ ValidChoice(choice)
             THEN Plan(reg, <<>>, <<>>, <<STYLE_UNKNOWN>>, FALSE)
             ELSE Plan(StoreStyle(reg, c, choice), <<>>, choice,
                       << STYLE_SET \o choice >>, FALSE)

\* line 123 never taking the miss branch
NeverMissing(index, key) == FALSE

\* line 123: key not in INDEX
KeyMissing(index, key) == key \notin DOMAIN index

\* line 122: f"{int(ch)}.{int(para)}"
NormalKey(ch, para) == str(int(ch)) \o <<".">> \o str(int(para))

\* line 127: CHAPTERS.get(str(int(ch)), {}).get("title", f"Chapitre {ch}")
Header(chapters, ch) ==
    IF str(int(ch)) \in DOMAIN chapters
    THEN chapters[str(int(ch))].title
    ELSE CHAPITRE \o ch

\* lines 126-129: the rendered text of a hit
FullText(index, chapters, ch, para, style) ==
    render_message(ch, para, Header(chapters, ch),
                   strip(index[NormalKey(ch, para)]), style)

\* the stripped texts that match ARTICLE_RE, as article_by_slash sees them
MatchedTexts ==
    {t \in {strip(m) : m \in ArticleTexts}
           \cup {<<"/">> \o strip(m) : m \in FreeTexts} :
        ARTICLE_RE_match(t)}

\* lines 129-131 replying with the rendered text in one piece
HitUnsplit ==
    [d \in Docs, t \in MatchedTexts, style \in STYLE_CHOICES |->
        IF NormalKey(Group1(t), Group2(t)) \in DOMAIN d.index
        THEN << FullText(d.index, d.chapters, Group1(t), Group2(t), style) >>
        ELSE <<>>]

\* lines 126-130: split_chunks(full) for every data file, matching text and
\* style, tabulated once (the replies of a hit depend on nothing else)
HitChunks ==
    [d \in Docs, t \in MatchedTexts, style \in STYLE_CHOICES |->
        IF NormalKey(Group1(t), Group2(t)) \in DOMAIN d.index
        THEN split_chunks(FullText(d.index, d.chapters,
                                   Group1(t), Group2(t), style),
                          DEFAULT_MAX_LEN)
        ELSE <<>>]

\* lines 116-131: article_by_slash; INDEX[key] of line 126 raises KeyError
\* for a key that is not in INDEX
ArticlePlan(index, chapters, reg, c, msg) ==
    LET t == strip(msg)
    IN  IF ~ ARTICLE_RE_match(t)
        THEN Plan(reg, <<>>, <<>>, <<>>, FALSE)
        ELSE LET key == NormalKey(Group1(t), Group2(t))
             IN  IF KeyMissing(index, key)
                 THEN Plan(reg, <<>>, <<>>, <<NOT_FOUND>>, FALSE)
                 ELSE IF key \notin DOMAIN index
                 THEN Plan(reg, <<>>, <<>>, <<>>, TRUE)
                 ELSE LET style == StyleGet(reg, c)
                          d     == [index |-> index, chapters |-> chapters]
                      IN  Plan(StyleTouch(reg, c), style, <<>>,
                               HitChunks[d, t, style], FALSE)

\* lines 133-139: catch_all
CatchAllPlan(index, chapters, reg, c, msg) ==
    LET txt == strip(msg)
    IN  IF ARTICLE_RE_match(<<"/">> \o txt)
        THEN ArticlePlan(index, chapters, reg, c, <<"/">> \o txt)
        ELSE Plan(reg, <<>>, <<>>, <<CATCH_ALL_TEXT>>, FALSE)

\* line 93: sorted(CHAPTERS, key=lambda x: int(x)); the keys of a data file
\* are the decimal forms of distinct integers
RECURSIVE SortByInt(_)
SortByInt(S) ==
    IF S = {} THEN <<>>
    ELSE LET k == CHOOSE k \in S : \A o \in S : int(k) <= int(o)
         IN  <<k>> \o SortByInt(S \ {k})

\* lines 92-96: the text of the listing
ChaptersText(chapters) ==
    LET nums  == SortByInt(DOMAIN chapters)
        lines == [i \in 1..Len(nums) |->
                    nums[i] \o <<".", " ">> \o chapters[nums[i]].title]
    IN  IF lines # <<>> THEN JoinLines(lines) ELSE NO_CHAPTER

\* line 97: split_chunks(text) for every data file, tabulated once
ListingChunks ==
    [d \in Docs |-> split_chunks(ChaptersText(d.chapters), DEFAULT_MAX_LEN)]

\* lines 91-98: chapitres
ChapitresPlan(index, chapters, reg) ==
    Plan(reg, <<>>, <<>>,
         ListingChunks[[index |-> index, chapters |-> chapters]], FALSE)

\* the handler of update t, sent from chat c, is dispatched and runs to its
\* first await.  Updates are dispatched in order of arrival; unless the
\* application handles updates concurrently, a handler is dispatched only
\* when no other is in progress.
Launch(t, c, kind, msg, args, p, concurrent) ==
    /\ tasks[t].pc = "idle"
    /\ \A u \in 1..(t - 1) : tasks[u].pc # "idle"
    /\ concurrent \/ \A u \in Tasks : tasks[u].pc # "send"
    /\ tasks' = [tasks EXCEPT ![t] =
                    [pc    |-> IF p.raised THEN "raised"
                               ELSE IF p.queue = <<>> THEN "done"
                               ELSE "send",
                     chat  |-> c, kind |-> kind, text |-> msg, args |-> args,
                     style |-> p.style, queue |-> p.queue, sent |-> <<>>]]
    /\ STYLE_BY_CHAT' = p.reg
    /\ accepted' = IF p.acc # <<>> THEN [accepted EXCEPT ![c] = p.acc]
                   ELSE accepted
    /\ UNCHANGED <<INDEX, CHAPTERS, chunkVars>>

\* lines 76-81
start(t, c, concurrent) ==
    Launch(t, c, "start", <<>>, <<>>,
           Plan(STYLE_BY_CHAT, <<>>, <<>>, <<START_TEXT>>, FALSE), concurrent)

\* lines 83-89
help_cmd(t, c, concurrent) ==
    Launch(t, c, "help", <<>>, <<>>,
           Plan(STYLE_BY_CHAT, <<>>, <<>>, <<HELP_TEXT>>, FALSE), concurrent)

chapitres(t, c, concurrent) ==
    Launch(t, c, "chapitres", <<>>, <<>>,
           ChapitresPlan(INDEX, CHAPTERS, STYLE_BY_CHAT), concurrent)

set_style(t, c, args, concurrent) ==
    Launch(t, c, "style", <<>>, args,
           SetStylePlan(STYLE_BY_CHAT, c, args), concurrent)

article_by_slash(t, c, msg, concurrent) ==
    Launch(t, c, "article", msg, <<>>,
           ArticlePlan(INDEX, CHAPTERS, STYLE_BY_CHAT, c, msg), concurrent)

catch_all(t, c, msg, concurrent) ==
    Launch(t, c, "catch_all", msg, <<>>,
           CatchAllPlan(INDEX, CHAPTERS, STYLE_BY_CHAT, c, msg), concurrent)

\* await update.message.reply_text(part): lines 77, 84, 98, 104, 111, 114,
\* 124, 131, 139
Reply(t) ==
    /\ tasks[t].pc = "send"
    /\ tasks' = [tasks EXCEPT
                    ![t].sent  = Append(@, Head(tasks[t].queue)),
                    ![t].queue = Tail(@),
                    ![t].pc    = IF Tail(tasks[t].queue) = <<>>
                                 THEN "done" ELSE "send"]
    /\ UNCHANGED <<INDEX, CHAPTERS, STYLE_BY_CHAT, accepted, chunkVars>>

NoCall == text = <<>> /\ max_len = DEFAULT_MAX_LEN /\ run = Start0 /\ cpc = "off"

\* the bot as main builds it (line 149: updates are handled one at a time)
Init ==
    /\ \E d \in Docs : INDEX = d.index /\ CHAPTERS = d.chapters
    /\ STYLE_BY_CHAT = <<>>
    /\ accepted = [c \in Chats |-> <<>>]
    /\ tasks = [t \in Tasks |-> Idle]
    /\ NoCall

Next ==
    \E t \in Tasks :
        \/ \E c \in Chats :
              \/ start(t, c, FALSE)
              \/ help_cmd(t, c, FALSE)
              \/ chapitres(t, c, FALSE)
              \/ \E args \in StyleArgs : set_style(t, c, args, FALSE)
              \/ \E msg \in ArticleTexts : article_by_slash(t, c, msg, FALSE)
              \/ \E msg \in FreeTexts : catch_all(t, c, msg, FALSE)
        \/ Reply(t)

Spec == Init /\ [][Next]_vars

\* the handlers that read or write STYLE_BY_CHAT, dispatched without
\* waiting for one another: they interleave at every reply they await
InitConcurrent ==
    /\ \E d \in {DocPlain, DocNoChapters} :
          INDEX = d.index /\ CHAPTERS = d.chapters
    /\ STYLE_BY_CHAT = <<>>
    /\ accepted = [c \in Chats |-> <<>>]
    /\ tasks = [t \in Tasks |-> Idle]
    /\ NoCall

NextConcurrent ==
    \E t \in Tasks :
        \/ \E c \in Chats :
              \/ \E args \in StyleArgs : set_style(t, c, args, TRUE)
              \/ \E msg \in ArticleTexts : article_by_slash(t, c, msg, TRUE)
              \/ \E msg \in FreeTexts : catch_all(t, c, msg, TRUE)
        \/ Reply(t)

SpecConcurrent == InitConcurrent /\ [][NextConcurrent]_vars

-----------------------------------------------------------------------------
(* split_chunks applied to every short text *)

Alphabet == {"a", "b", NL}

Texts == UNION {[1..k -> Alphabet] : k \in 0..MaxTextLen}

InitChunk ==
    /\ text \in Texts
    /\ max_len \in 1..MaxMaxLen
    /\ run = Start0
    /\ cpc = "input"
    /\ INDEX = <<>> /\ CHAPTERS = <<>> /\ STYLE_BY_CHAT = <<>>
    /\ tasks = [t \in Tasks |-> Idle]
    /\ accepted = [c \in Chats |-> <<>>]

CallSplit ==
    /\ cpc = "input"
    /\ run' = SplitRun(text, max_len)
    /\ cpc' = "done"
    /\ UNCHANGED <<text, max_len, botVars>>

NextChunk == CallSplit

SpecChunk == InitChunk /\ [][NextChunk]_vars

-----------------------------------------------------------------------------
(* Claims about split_chunks *)

Done == cpc = "done"

\* C1: every chunk returned by split_chunks(text, max_len), max_len >= 1, has
\* length <= max_len, also when one paragraph is longer than max_len and
\* when the text has empty paragraphs.
ChunkBound ==
    Done => \A i \in 1..Len(run.parts) : Len(run.parts[i]) <= max_len

HasEmptyPara(t) == \E k \in 1..Len(Split(t)) : Split(t)[k] = <<>>

HasLongPara(t, m) == \E k \in 1..Len(Split(t)) : Len(Split(t)[k]) > m

ChunkBoundWitness ==
    /\ Done
    /\ HasEmptyPara(text)
    /\ HasLongPara(text, max_len)
    /\ Len(run.parts) >= 3

\* the chunks glued back: "\n\n" after a chunk cut at a paragraph boundary,
\* nothing after a chunk cut inside a paragraph
RECURSIVE Glue(_, _)
Glue(ps, cs) ==
    IF ps = <<>> THEN <<>>
    ELSE IF Len(ps) = 1 THEN ps[1]
    ELSE ps[1] \o (IF cs[1] = "para" THEN SEP ELSE <<>>)
               \o Glue(Tail(ps), Tail(cs))

\* C2: joining the chunks in order, with the paragraph separator between two
\* chunks split at a paragraph boundary and nothing between two chunks split
\* inside a paragraph, reconstructs the text exactly.
RoundTrip ==
    Done => /\ Len(run.cuts) = Len(run.parts)
            /\ Glue(run.parts, run.cuts) = text

RoundTripWitness ==
    /\ Done
    /\ \E i, j \in 1..(Len(run.parts) - 1) :
          run.cuts[i] = "para" /\ run.cuts[j] = "hard"
    /\ Glue(run.parts, run.cuts) = text

\* C3: for a non-empty text, split_chunks returns no empty chunk.
NoEmptyChunk ==
    (Done /\ text # <<>>) =>
        \A i \in 1..Len(run.parts) : run.parts[i] # <<>>

\* the paragraph of the text that follows chunk i, for a chunk cut at a
\* paragraph boundary
NextPara(i) ==
    LET upto == Glue(SubSeq(run.parts, 1, i), SubSeq(run.cuts, 1, i))
    IN  Head(Split(SubSeq(text, Len(upto) + 3, Len(text))))

TwoParas == Len(Split(text)) = 2

EachFits == \A k \in 1..Len(Split(text)) : Len(Split(text)[k]) <= max_len

\* C9: chunks are maximal: a chunk cut at a paragraph boundary, joined with
\* the separator and the next paragraph of the text, is longer than max_len;
\* two paragraphs that fit together are one chunk, two that each fit but not
\* together are one chunk per paragraph.
Maximal ==
    Done =>
        /\ \A i \in 1..(Len(run.parts) - 1) :
              run.cuts[i] = "para" =>
                 Len(run.parts[i]) + Len(SEP) + Len(NextPara(i)) > max_len
        /\ (TwoParas /\ Len(text) <= max_len) => run.parts = <<text>>
        /\ (TwoParas /\ EachFits /\ Len(text) > max_len) =>
              run.parts = Split(text)

MaximalWitness ==
    /\ Done
    /\ TwoParas /\ EachFits /\ Len(text) > max_len
    /\ Split(text)[1] # <<>> /\ Split(text)[2] # <<>>
    /\ run.parts = Split(text)

IsPrefix(p, s) == Len(p) <= Len(s) /\ SubSeq(s, 1, Len(p)) = p

\* the hard split h occupies parts[i .. i+n-1]; the chunk after its slices
\* starts with the remainder
SeedAt(h, i) ==
    LET n == Len(h.slices)
    IN  /\ i + n <= Len(run.parts)
        /\ SubSeq(run.parts, i, i + n - 1) = h.slices
        /\ \A j \in i..(i + n - 1) : run.cuts[j] = "hard"
        /\ i > 1 => run.cuts[i - 1] = "para"
        /\ run.cuts[i + n] = "para"
        /\ IsPrefix(h.rest, run.parts[i + n])
        /\ \/ run.parts[i + n] = h.rest
           \/ IsPrefix(h.rest \o SEP, run.parts[i + n])

RECURSIVE Concat(_)
Concat(ss) == IF ss = <<>> THEN <<>> ELSE Head(ss) \o Concat(Tail(ss))

\* C10 (as stated): after a hard split the remainder seeded into the new
\* batch is always empty, so no chunk holds characters of the hard-split
\* paragraph together with a following paragraph.
HardSplitRestEmpty ==
    Done => \A k \in 1..Len(run.seeds) :
               /\ run.seeds[k].rest = <<>>
               /\ \A i \in 1..Len(run.parts) :
                     ~ IsPrefix(run.seeds[k].rest \o SEP, run.parts[i])

\* C10 (amended): a paragraph longer than max_len is cut into slices of
\* exactly max_len characters, each its own chunk; the remainder is never
\* empty, has at most max_len characters and seeds the new batch, so the
\* chunk that starts with it may go on with the following paragraphs.
HardSplitSlices ==
    Done => \A k \in 1..Len(run.seeds) :
               LET h == run.seeds[k]
               IN  /\ Len(h.para) > max_len
                   /\ h.slices # <<>>
                   /\ \A j \in 1..Len(h.slices) : Len(h.slices[j]) = max_len
                   /\ h.rest # <<>> /\ Len(h.rest) <= max_len
                   /\ Concat(h.slices) \o h.rest = h.para
                   /\ \E i \in 1..Len(run.parts) : SeedAt(h, i)

HardSplitWitness ==
    /\ Done
    /\ \E k \in 1..Len(run.seeds), i \in 1..Len(run.parts) :
          /\ IsPrefix(run.seeds[k].rest \o SEP, run.parts[i])
          /\ Len(run.parts[i]) > Len(run.seeds[k].rest) + Len(SEP)

-----------------------------------------------------------------------------
(* Claims about the handlers *)

\* every reply of the handler on task t, sent or still to send
AllOut(r) == r.sent \o r.queue

\* the text article_by_slash matches for the handler r (line 117, or line
\* 137 when it is entered from catch_all)
SlashText(r) ==
    IF r.kind = "article" THEN strip(r.text) ELSE <<"/">> \o strip(r.text)

IsLookup(r) ==
    /\ r.pc # "idle"
    /\ r.kind \in {"article", "catch_all"}
    /\ ARTICLE_RE_match(SlashText(r))

Chapter(r) == Group1(SlashText(r))

Paragraph(r) == Group2(SlashText(r))

IsHit(r, index) ==
    IsLookup(r) /\ NormalKey(Chapter(r), Paragraph(r)) \in DOMAIN index

IsMiss(r, index) ==
    IsLookup(r) /\ NormalKey(Chapter(r), Paragraph(r)) \notin DOMAIN index

\* the step dispatches the handler of update t
Launched(t) == tasks[t].pc = "idle" /\ tasks'[t].pc # "idle"

\* C4: two lookups whose chapter and paragraph numbers are equal as integers
\* and that hit the index emit the same replies under the same style.
SameEntrySameReplies ==
    \A t1, t2 \in Tasks :
        ( /\ IsHit(tasks[t1], INDEX) /\ IsHit(tasks[t2], INDEX)
          /\ int(Chapter(tasks[t1])) = int(Chapter(tasks[t2]))
          /\ int(Paragraph(tasks[t1])) = int(Paragraph(tasks[t2]))
          /\ tasks[t1].style = tasks[t2].style )
        => AllOut(tasks[t1]) = AllOut(tasks[t2])

IsStyleChange(r) == r.kind = "style" /\ r.args # <<>>

Rejected(t) ==
    /\ tasks'[t].queue = <<STYLE_UNKNOWN>>
    /\ STYLE_BY_CHAT' = STYLE_BY_CHAT
    /\ \A c \in Chats :
          StyleGet(STYLE_BY_CHAT', c) = StyleGet(STYLE_BY_CHAT, c)

\* C5 (as stated): a style change whose argument is not one of scroll,
\* clean, box is rejected: the requester is told, the registry is unchanged
\* and a read returns the same style as before.
RejectsUnlisted ==
    [][\A t \in Tasks :
          ( /\ Launched(t) /\ IsStyleChange(tasks'[t])
            /\ tasks'[t].args[1] \notin STYLE_CHOICES )
          => Rejected(t)]_vars

\* C5 (amended): a style change whose argument, stripped of surrounding
\* whitespace and lower-cased, is not one of scroll, clean, box is rejected:
\* the requester is told, the registry is unchanged and a read returns the
\* same style as before.
RejectsUnknown ==
    [][\A t \in Tasks :
          ( /\ Launched(t) /\ IsStyleChange(tasks'[t])
            /\ lower(strip(tasks'[t].args[1])) \notin STYLE_CHOICES )
          => Rejected(t)]_vars

RejectsUnknownWitness ==
    \E t \in Tasks :
        /\ tasks[t].pc = "done" /\ IsStyleChange(tasks[t])
        /\ lower(strip(tasks[t].args[1])) \notin STYLE_CHOICES
        /\ tasks[t].sent = <<STYLE_UNKNOWN>>
        /\ tasks[t].chat \in DOMAIN STYLE_BY_CHAT
        /\ STYLE_BY_CHAT[tasks[t].chat] = BOX

\* the argument of the most recent accepted style change of chat c, or the
\* default
LastAccepted(c) == IF accepted[c] = <<>> THEN SCROLL ELSE accepted[c]

\* C6: under any interleaving of handlers, the style read for a chat is the
\* argument of the most recent accepted style change for that chat, or
\* "scroll"; a handler never changes the style of another chat; every
\* stored value is one of scroll, clean, box.
StylePerChat ==
    /\ [](/\ DOMAIN STYLE_BY_CHAT \subseteq Chats
          /\ \A c \in DOMAIN STYLE_BY_CHAT : STYLE_BY_CHAT[c] \in STYLE_CHOICES
          /\ \A c \in Chats : StyleGet(STYLE_BY_CHAT, c) = LastAccepted(c))
    /\ [][\A t \in Tasks :
            /\ ( Launched(t) /\ tasks'[t].style # <<>> )
               => tasks'[t].style = LastAccepted(tasks'[t].chat)
            /\ tasks'[t] # tasks[t]
               => \A c \in Chats \ {tasks'[t].chat} :
                     StyleGet(STYLE_BY_CHAT', c) = StyleGet(STYLE_BY_CHAT, c)
         ]_vars

StylePerChatWitness ==
    \E t1, t2 \in Tasks, c2 \in Chats :
        /\ t1 # t2 /\ tasks[t1].chat = tasks[t2].chat /\ c2 # tasks[t1].chat
        /\ IsStyleChange(tasks[t1]) /\ tasks[t1].pc = "send"
        /\ tasks[t2].pc = "send"
        /\ accepted[tasks[t1].chat] = CLEAN
        /\ IsHit(tasks[t2], INDEX) /\ tasks[t2].style = CLEAN
        /\ StyleGet(STYLE_BY_CHAT, c2) = SCROLL

ThisDoc == [index |-> INDEX, chapters |-> CHAPTERS]

\* split_chunks(full, 4000) for every data file, matching text and style
HitChunks4000 ==
    [d \in Docs, t \in MatchedTexts, style \in STYLE_CHOICES |->
        IF NormalKey(Group1(t), Group2(t)) \in DOMAIN d.index
        THEN split_chunks(FullText(d.index, d.chapters,
                                   Group1(t), Group2(t), style), 4000)
        ELSE <<>>]

\* split_chunks(text, 4000) of the listing of every data file
ListingChunks4000 ==
    [d \in Docs |-> split_chunks(ChaptersText(d.chapters), 4000)]

Messages(r) == {AllOut(r)[i] : i \in 1..Len(AllOut(r))}

\* C7: every message of every handler has at most 4096 characters; on a
\* hit and on a chapters listing the replies are the chunks of
\* split_chunks(full text, 4000), in order.
MessagesFit ==
    \A t \in Tasks :
        /\ \A m \in Messages(tasks[t]) : Len(m) <= TELEGRAM_LIMIT
        /\ IsHit(tasks[t], INDEX) =>
              AllOut(tasks[t]) =
                 HitChunks4000[ThisDoc, SlashText(tasks[t]), tasks[t].style]
        /\ tasks[t].kind = "chapitres" =>
              AllOut(tasks[t]) = ListingChunks4000[ThisDoc]

MessagesFitWitness ==
    \E t1, t2 \in Tasks :
        /\ IsHit(tasks[t1], INDEX) /\ tasks[t1].pc = "done"
        /\ Len(tasks[t1].sent) >= 2
        /\ Len(tasks[t1].sent[1]) = 4000
        /\ tasks[t2].kind = "chapitres" /\ tasks[t2].pc = "done"
        /\ Len(tasks[t2].sent) >= 2

\* C8: a lookup whose normalized key is absent from the index sends exactly
\* one reply, the not-found message, raises nothing and leaves the index,
\* the chapter table and the style registry as they were.
MissReported ==
    /\ [](\A t \in Tasks :
            IsMiss(tasks[t], INDEX) =>
               /\ tasks[t].pc \in {"send", "done"}
               /\ AllOut(tasks[t]) = <<NOT_FOUND>>
               /\ tasks[t].pc = "done" => tasks[t].sent = <<NOT_FOUND>>)
    /\ [][\A t \in Tasks :
            ( Launched(t) /\ IsMiss(tasks'[t], INDEX) )
            => /\ INDEX' = INDEX /\ CHAPTERS' = CHAPTERS
               /\ STYLE_BY_CHAT' = STYLE_BY_CHAT /\ accepted' = accepted
         ]_vars

MissReportedWitness ==
    \E t1, t2 \in Tasks :
        /\ IsMiss(tasks[t1], INDEX) /\ tasks[t1].pc = "done"
        /\ tasks[t1].sent = <<NOT_FOUND>>
        /\ IsHit(tasks[t2], INDEX) /\ tasks[t2].pc = "done"

====
